---- MODULE Spec2Model ----
(***************************************************************************)
(* The health-check engine of app/main.py: the bounded fan-out prober      *)
(* (check_all_once), the probe executor (check_one), the status store      *)
(* (_status), the registry (_services), the background scheduler           *)
(* (background_loop), the lifecycle hooks and the HTTP handlers.           *)
(*                                                                         *)
(* asyncio runs one coroutine at a time and switches only at an await, so  *)
(* every action below is the code between two suspension points.           *)
(*                                                                         *)
(* Python values: an Optional value is None (<<>>) or Some(v) (<<v>>); a   *)
(* dict that the code reads with .get is a record whose missing keys are   *)
(* missing fields; the insertion-ordered dict _status is a sequence of     *)
(* [key, val] entries.                                                     *)
(*                                                                         *)
(* What the model fixes:                                                   *)
(*  - exceptions follow Python 3.8 and later: CancelledError is not an     *)
(*    Exception, so `except Exception` lets a cancellation through;        *)
(*  - the tasks a pass creates run to their first suspension in the step   *)
(*    that creates them, and a released permit is taken by the next waiter *)
(*    in the step that releases it (no time passes in between);            *)
(*  - once `await t` has raised in check_all_once, the tasks it leaves     *)
(*    behind are not followed further: nothing reads their results;        *)
(*  - time.time() does not step backwards;                                 *)
(*  - urls are non-empty strings, or the key is missing;                   *)
(*  - next to the background task one refresh, reload or wake request is   *)
(*    in progress at a time, and the server has drained its requests when  *)
(*    on_shutdown runs.                                                    *)
(***************************************************************************)
EXTENDS Integers, Sequences, FiniteSets, TLC

VARIABLES
    services,   \* _services: the registry, a sequence of service dicts
    status,     \* _status: insertion-ordered dict, key -> result
    stopEvent,  \* _stop_event.is_set()
    phase,      \* lifecycle: init, initial, running, stopping, stopped, failed
    bg,         \* app.state.bg_task: none, top, round, wait, done, cancelled
    call,       \* the check_all_once invocation of each caller slot
    api,        \* the /api/refresh or /api/reload handler in progress
    wake,       \* the /api/wake handler in progress
    resp,       \* the HTTP response the last step produced, if it produced one
    now,        \* time.time(), in whole seconds
    rounds,     \* scheduler rounds started so far
    reqs        \* /api/refresh, /api/reload and /api/wake requests taken so far

vars == <<services, status, stopEvent, phase, bg, call, api, wake, resp, now, rounds, reqs>>

----------------------------------------------------------------------------
(* Bounds and program constants *)

\* the clock stops advancing at MaxTime
MaxTime == 1

\* the interval elapses at most MaxRounds times
MaxRounds == 2

\* the server takes at most MaxRequests state-changing requests
MaxRequests == 1

\* CONCURRENCY_LIMIT (main.py:16), configured small so that N > C occurs
CONCURRENCY_LIMIT == 2

None == <<>>
Some(v) == <<v>>

\* response codes an endpoint may answer with
Codes == {200, 503}

\* str(e) of a transport failure; httpx timeouts have an empty message
ErrorTexts == {"", "ConnectError"}

\* what client.request can do: return a response or raise
Outcomes ==
    [kind : {"response"}, code : Codes] \cup [kind : {"raise"}, text : ErrorTexts]

\* the outcomes drawn where the whole system runs
SystemOutcomes ==
    {[kind |-> "response", code |-> 200], [kind |-> "raise", text |-> "ConnectError"]}

----------------------------------------------------------------------------
(* The registry: what load_services can return *)

svcA == [url |-> "http://a", name |-> "api", method |-> Some("GET"), expect_status |-> 200]
svcB == [url |-> "http://b", name |-> "api", method |-> Some("GET"), expect_status |-> 503]
\* no name: the result's name falls back to the url
svcC == [url |-> "http://c", method |-> Some("GET"), expect_status |-> 200]
\* a record without url: load_services defaults wake_url to None and keeps it
svcNoUrl == [name |-> "ghost", method |-> Some("GET"), expect_status |-> 200]
\* "method:" with no value in the YAML: the key exists, so setdefault keeps None
svcNullMethod == [url |-> "http://d", name |-> "db", method |-> None, expect_status |-> 200]

\* the service lists the configuration file may hold
Configs ==
    { <<>>,
      <<svcA, svcB>>,
      <<svcB>>,
      <<svcB, svcNullMethod>> }

\* the larger lists a single pass is run over
PassConfigs ==
    { <<>>,
      <<svcA, svcB, svcC>>,
      <<svcC, svcA, svcNoUrl, svcB>>,
      <<svcB, svcB, svcA>>,
      <<svcNullMethod, svcA>> }

\* load_services: the parsed, defaulted list, or an exception (missing or
\* malformed file)
LoadOutcomes == [kind : {"loaded"}, services : Configs] \cup {[kind |-> "raise"]}

\* a loader that answers an unreadable file with the empty list
LoadOrEmpty(o) == IF o.kind = "raise" THEN [kind |-> "loaded", services |-> <<>>] ELSE o

load_services(o) == o

\* d.get("url"): None when the key is missing
GetUrl(d) == IF "url" \in DOMAIN d THEN Some(d.url) ELSE None

\* Python string order on the strings of the model (code point order)
StrOrder == <<"api", "db", "ghost", "http://a", "http://b", "http://c", "http://d">>

StrPos(s) == IF \E i \in 1..Len(StrOrder) : StrOrder[i] = s
             THEN CHOOSE i \in 1..Len(StrOrder) : StrOrder[i] = s
             ELSE 0

StrLe(s, t) == StrPos(s) <= StrPos(t)

----------------------------------------------------------------------------
(* The insertion-ordered dict *)

DictKeys(d) == {d[i].key : i \in 1..Len(d)}

DictHas(d, k) == k \in DictKeys(d)

DictGet(d, k) == (d[CHOOSE i \in 1..Len(d) : d[i].key = k]).val

\* d[k] = v: an existing key keeps its position, a new key goes last
DictSet(d, k, v) ==
    IF DictHas(d, k)
    THEN [i \in 1..Len(d) |-> IF d[i].key = k THEN [key |-> k, val |-> v] ELSE d[i]]
    ELSE Append(d, [key |-> k, val |-> v])

RECURSIVE DictUpdateKeepOld(_, _)
\* an update that keeps the entries the dict has (setdefault)
DictUpdateKeepOld(d, e) ==
    IF e = <<>> THEN d
    ELSE DictUpdateKeepOld(IF DictHas(d, Head(e).key) THEN d
                           ELSE DictSet(d, Head(e).key, Head(e).val), Tail(e))

\* an assignment in place of the update
DictReplace(d, e) == e

RECURSIVE DictUpdate(_, _)
\* d.update(e): e's entries in e's order
DictUpdate(d, e) ==
    IF e = <<>> THEN d
    ELSE DictUpdate(DictSet(d, Head(e).key, Head(e).val), Tail(e))

\* list(d.values())
DictValues(d) == [i \in 1..Len(d) |-> d[i].val]

----------------------------------------------------------------------------
(* check_one *)

\* lines 45-46 run before the try: svc["url"] raises KeyError without the
\* key, svc["method"].upper() raises AttributeError on None
CheckOneRaises(svc) == "url" \notin DOMAIN svc \/ svc.method = None

\* success judged against the default status, not the service's own
ProbeOkDefault(code, svc) == code = 200

\* ok = (status_code == svc.get("expect_status", 200))
ProbeOk(code, svc) == code = svc.expect_status

\* int((time.time() - started) * 1000)
LatencyMs(started, t) == (t - started) * 1000

\* the dict check_one returns (region and tags, copied from svc, are left out)
CheckOneResult(svc, started, out, t) ==
    [ name          |-> IF "name" \in DOMAIN svc THEN svc.name ELSE svc.url,
      url           |-> svc.url,
      ok            |-> IF out.kind = "response" THEN ProbeOk(out.code, svc) ELSE FALSE,
      status_code   |-> IF out.kind = "response" THEN Some(out.code) ELSE None,
      latency_ms    |-> LatencyMs(started, t),
      checked_at    |-> t,
      error         |-> IF out.kind = "raise" THEN Some(out.text) ELSE None,
      expect_status |-> svc.expect_status ]

\* the sentinel entry of lines 95 and 109: no url, no name
Sentinel(text, t) == [ok |-> FALSE, error |-> Some(text), checked_at |-> t]

----------------------------------------------------------------------------
(* check_all_once *)

Slots == {"sched", "api"}

IdleCall == [st |-> "idle", tasks |-> <<>>, results |-> <<>>, sem |-> 0]

TasksOf(cl, s) == {i \in 1..Len(cl.tasks) : cl.tasks[i].st = s}

TasksIn(c, s) == TasksOf(call[c], s)

InFlight(c) == Cardinality(TasksIn(c, "inflight"))

\* a gate that admits without counting
AcquireUnbounded(sem) == TRUE

\* Semaphore.acquire does not block
CanAcquire(sem) == sem > 0

\* async with sem: __aexit__ releases on a return and on an exception alike
Release(sem, out) == sem + 1

RECURSIVE AdmitWaiters(_, _)
\* lines 81-82, for the tasks the event loop resumes: in FIFO order each
\* takes a permit while there is one and enters check_one, which raises at
\* once on a malformed svc (the permit goes back, `await t` raises in
\* check_all_once and the other tasks are left behind) or issues its request
AdmitWaiters(cl, t) ==
    LET w == TasksOf(cl, "waiting")
    IN  IF cl.st # "run" \/ w = {} \/ ~CanAcquire(cl.sem) THEN cl
        ELSE LET i == CHOOSE j \in w : \A k \in w : j <= k
             IN  IF CheckOneRaises(cl.tasks[i].svc)
                 THEN [cl EXCEPT !.tasks[i].st = "raised", !.st = "failed"]
                 ELSE AdmitWaiters([cl EXCEPT !.tasks[i].st = "inflight",
                                              !.tasks[i].started = t,
                                              !.sem = @ - 1], t)

\* lines 77-83: a fresh semaphore and one task per service of the registry as
\* it is now; the tasks run up to their first suspension
NewCall(svcs, t) ==
    AdmitWaiters(
        [ st      |-> "run",
          tasks   |-> [i \in 1..Len(svcs) |-> [svc |-> svcs[i], st |-> "waiting", started |-> 0]],
          results |-> <<>>,
          sem     |-> CONCURRENCY_LIMIT ], t)

\* the as_completed loop has taken every task
AllCollected(c) == call[c].st = "run" /\ \A i \in 1..Len(call[c].tasks) : call[c].tasks[i].st = "done"

\* check_all_once is over: it returns, or `await t` raised
Ended(c) == AllCollected(c) \/ call[c].st = "failed"

\* response of a step that answers no request
NoResp == [kind |-> "none"]

\* an HTTPException (lines 141, 155, 164) or, for an exception that leaves
\* a handler, the server's 500; detail is the message, a formatted
\* f"...: {e}" as the pair of its text and str(e)
HttpError(code, detail) == [kind |-> "error", code |-> code, detail |-> detail]

\* str(e) of what lines 45-46 raise: KeyError('url'), or AttributeError
RaiseText(svc) ==
    IF "url" \notin DOMAIN svc THEN "'url'"
    ELSE "'NoneType' object has no attribute 'upper'"

\* str(e) of the exception a failed pass ended with
CallRaiseText(c) ==
    LET i == CHOOSE j \in 1..Len(call[c].tasks) : call[c].tasks[j].st = "raised"
    IN  RaiseText(call[c].tasks[i].svc)

\* a pass that stores each result as it arrives
CompleteWriteThrough(c, i, out) ==
    /\ call[c].st = "run"
    /\ i \in TasksIn(c, "inflight")
    /\ LET t == call[c].tasks[i]
           r == CheckOneResult(t.svc, t.started, out, now)
       IN  /\ call' = [call EXCEPT ![c] =
                          AdmitWaiters([@ EXCEPT !.tasks[i].st = "done",
                                                 !.results = DictSet(@, r.url, r),
                                                 !.sem = Release(@, out)], now)]
           /\ status' = DictSet(status, r.url, r)
    /\ resp' = NoResp
    /\ UNCHANGED <<services, stopEvent, phase, bg, api, wake, now, rounds, reqs>>

\* lines 52-74 and 85-86: the request of task i ends, check_one returns its
\* dict, the permit is released (the next waiter takes it) and as_completed
\* hands the result over
Complete(c, i, out) ==
    /\ call[c].st = "run"
    /\ i \in TasksIn(c, "inflight")
    /\ LET t == call[c].tasks[i]
           r == CheckOneResult(t.svc, t.started, out, now)
       IN  call' = [call EXCEPT ![c] =
                       AdmitWaiters([@ EXCEPT !.tasks[i].st = "done",
                                              !.results = DictSet(@, r.url, r),
                                              !.sem = Release(@, out)], now)]
    /\ resp' = NoResp
    /\ UNCHANGED <<services, status, stopEvent, phase, bg, api, wake, now, rounds, reqs>>

----------------------------------------------------------------------------
(* on_startup, background_loop, on_shutdown *)

Init ==
    /\ services = <<>>
    /\ status = <<>>
    /\ stopEvent = FALSE
    /\ phase = "init"
    /\ bg = "none"
    /\ call = [c \in Slots |-> IdleCall]
    /\ api = "none"
    /\ wake = [pc |-> "idle"]
    /\ resp = NoResp
    /\ now = 0
    /\ rounds = 0
    /\ reqs = 0

\* time passes
Tick ==
    /\ now < MaxTime
    /\ now' = now + 1
    /\ resp' = NoResp
    /\ UNCHANGED <<services, status, stopEvent, phase, bg, call, api, wake, rounds, reqs>>

\* lines 104-106: load the registry (an exception aborts the startup) and
\* start the initial pass
Startup(o) ==
    /\ phase = "init"
    /\ LET l == load_services(o)
       IN  IF l.kind = "raise"
           THEN phase' = "failed" /\ UNCHANGED <<services, call>>
           ELSE /\ services' = l.services
                /\ call' = [call EXCEPT !["sched"] = NewCall(l.services, now)]
                /\ phase' = "initial"
    /\ resp' = NoResp
    /\ UNCHANGED <<status, stopEvent, bg, api, wake, now, rounds, reqs>>

\* what a caller that catches does with the pass (lines 93/95, 107/109)
ApplyOrSentinel(c, text) ==
    IF call[c].st = "failed"
    THEN DictSet(status, "__error__", Sentinel(text, now))
    ELSE DictUpdate(status, call[c].results)

\* lines 106-110: the initial pass is over; create the background task
StartupDone ==
    /\ phase = "initial"
    /\ Ended("sched")
    /\ status' = ApplyOrSentinel("sched", "Initial check error")
    /\ call' = [call EXCEPT !["sched"] = IdleCall]
    /\ bg' = "top"
    /\ phase' = "running"
    /\ resp' = NoResp
    /\ UNCHANGED <<services, stopEvent, api, wake, now, rounds, reqs>>

\* a loop that never tests the event
LoopForever == TRUE

\* line 90
LoopContinues == ~stopEvent

\* a loop body that runs once: the task ends after the wait
LoopTopOnce ==
    /\ bg = "top"
    /\ IF LoopContinues /\ rounds = 0
       THEN /\ bg' = "round"
            /\ call' = [call EXCEPT !["sched"] = NewCall(services, now)]
            /\ rounds' = rounds + 1
       ELSE bg' = "done" /\ UNCHANGED <<call, rounds>>
    /\ resp' = NoResp
    /\ UNCHANGED <<services, status, stopEvent, phase, api, wake, now, reqs>>

\* lines 90-92: the loop test, then the next round or the end of the task
LoopTop ==
    /\ bg = "top"
    /\ IF LoopContinues
       THEN /\ bg' = "round"
            /\ call' = [call EXCEPT !["sched"] = NewCall(services, now)]
            /\ rounds' = rounds + 1
       ELSE bg' = "done" /\ UNCHANGED <<call, rounds>>
    /\ resp' = NoResp
    /\ UNCHANGED <<services, status, stopEvent, phase, api, wake, now, reqs>>

\* a loop without the try: the exception of a round ends the task
LoopRoundDoneDies ==
    /\ bg = "round"
    /\ Ended("sched")
    /\ IF call["sched"].st = "failed"
       THEN bg' = "done" /\ UNCHANGED status
       ELSE bg' = "wait" /\ status' = DictUpdate(status, call["sched"].results)
    /\ call' = [call EXCEPT !["sched"] = IdleCall]
    /\ resp' = NoResp
    /\ UNCHANGED <<services, stopEvent, phase, api, wake, now, rounds, reqs>>

\* lines 92-97: the round is over; apply it or record the exception, then wait
LoopRoundDone ==
    /\ bg = "round"
    /\ Ended("sched")
    /\ status' = ApplyOrSentinel("sched", "Background loop error")
    /\ call' = [call EXCEPT !["sched"] = IdleCall]
    /\ bg' = "wait"
    /\ resp' = NoResp
    /\ UNCHANGED <<services, stopEvent, phase, api, wake, now, rounds, reqs>>

\* lines 97-99: CHECK_INTERVAL_SECONDS elapsed, TimeoutError is passed over
LoopTimeout ==
    /\ bg = "wait"
    /\ rounds < MaxRounds
    /\ bg' = "top"
    /\ resp' = NoResp
    /\ UNCHANGED <<services, status, stopEvent, phase, call, api, wake, now, rounds, reqs>>

\* task.cancel() on the background task, by where it is suspended. In a
\* round, CancelledError (not an Exception) leaves check_all_once and the
\* loop. In the interval wait the event has just been set: wait_for raises
\* CancelledError (Python 3.12) or returns the finished wait (3.9 to 3.11),
\* and then the loop test ends the task.
CancelOutcomes ==
    CASE bg = "wait" -> {"cancelled", "top"}
      [] bg \in {"top", "round"} -> {"cancelled"}
      [] OTHER -> {bg}

\* lines 114-117, after the server has drained its requests
Shutdown(b) ==
    /\ phase = "running"
    /\ api = "none" /\ wake.pc = "idle"
    /\ b \in CancelOutcomes
    /\ stopEvent' = TRUE
    /\ bg' = b
    /\ call' = IF bg = "round" THEN [call EXCEPT !["sched"].st = "cancelled"] ELSE call
    /\ phase' = "stopping"
    /\ resp' = NoResp
    /\ UNCHANGED <<services, status, api, wake, now, rounds, reqs>>

\* lines 118-121: `await task` is over
ShutdownDone ==
    /\ phase = "stopping"
    /\ bg \in {"done", "cancelled"}
    /\ phase' = "stopped"
    /\ resp' = NoResp
    /\ UNCHANGED <<services, status, stopEvent, bg, call, api, wake, now, rounds, reqs>>

----------------------------------------------------------------------------
(* The HTTP handlers. The model serves one refresh, reload or wake request *)
(* at a time, next to the background task; /api/status is served any time. *)

\* a snapshot that filters nothing
HasUrlUnfiltered(d) == TRUE

\* line 130: d.get("url") is truthy
HasUrl(d) == GetUrl(d) # None

\* line 131: d.get("name") or d.get("url")
SortKey(d) == IF "name" \in DOMAIN d THEN d.name ELSE IF "url" \in DOMAIN d THEN d.url ELSE ""

RECURSIVE Filter(_)
Filter(s) ==
    IF s = <<>> THEN <<>>
    ELSE IF HasUrl(Head(s)) THEN <<Head(s)>> \o Filter(Tail(s)) ELSE Filter(Tail(s))

\* x goes after every element whose key is not larger: list.sort is stable
InsertSorted(x, s) ==
    LET n == Cardinality({i \in 1..Len(s) : StrLe(SortKey(s[i]), SortKey(x))})
    IN  SubSeq(s, 1, n) \o <<x>> \o SubSeq(s, n + 1, Len(s))

RECURSIVE SortByKey(_)
SortByKey(s) ==
    IF s = <<>> THEN <<>>
    ELSE InsertSorted(s[Len(s)], SortByKey(SubSeq(s, 1, Len(s) - 1)))

\* lines 129-131
Snapshot(d) == SortByKey(Filter(DictValues(d)))

Serving == phase = "running"

HandlerIdle == api = "none" /\ wake.pc = "idle"

\* lines 127-132
ApiStatus ==
    /\ Serving
    /\ resp' = [kind |-> "status", services |-> Snapshot(status), last_updated |-> now]
    /\ UNCHANGED <<services, status, stopEvent, phase, bg, call, api, wake, now, rounds, reqs>>

\* lines 158-160
ApiRefresh ==
    /\ Serving /\ HandlerIdle
    /\ reqs < MaxRequests
    /\ reqs' = reqs + 1
    /\ api' = "refresh"
    /\ call' = [call EXCEPT !["api"] = NewCall(services, now)]
    /\ resp' = NoResp
    /\ UNCHANGED <<services, status, stopEvent, phase, bg, wake, now, rounds>>

\* lines 160-164: the pass is over
ApiRefreshDone ==
    /\ api = "refresh"
    /\ Ended("api")
    /\ IF call["api"].st = "failed"
       THEN /\ resp' = HttpError(500, <<CallRaiseText("api")>>)
            /\ UNCHANGED status
       ELSE /\ status' = DictUpdate(status, call["api"].results)
            /\ resp' = [kind |-> "refresh", ok |-> TRUE, refreshed |-> Len(call["api"].results)]
    /\ api' = "none"
    /\ call' = [call EXCEPT !["api"] = IdleCall]
    /\ UNCHANGED <<services, stopEvent, phase, bg, wake, now, rounds, reqs>>

\* lines 169-170: an exception of load_services leaves the handler
ApiReload(o) ==
    /\ Serving /\ HandlerIdle
    /\ reqs < MaxRequests
    /\ reqs' = reqs + 1
    /\ LET l == load_services(o)
       IN  IF l.kind = "raise"
           THEN /\ resp' = HttpError(500, <<"Internal Server Error">>)
                /\ UNCHANGED <<services, call, api>>
           ELSE /\ services' = l.services
                /\ call' = [call EXCEPT !["api"] = NewCall(l.services, now)]
                /\ api' = "reload"
                /\ resp' = NoResp
    /\ UNCHANGED <<status, stopEvent, phase, bg, wake, now, rounds>>

\* lines 170-172: the pass is over; its exception leaves the handler
ApiReloadDone ==
    /\ api = "reload"
    /\ Ended("api")
    /\ IF call["api"].st = "failed"
       THEN /\ resp' = HttpError(500, <<"Internal Server Error">>)
            /\ UNCHANGED status
       ELSE /\ status' = DictUpdate(status, call["api"].results)
            /\ resp' = [kind |-> "reload", ok |-> TRUE, services |-> Len(services)]
    /\ api' = "none"
    /\ call' = [call EXCEPT !["api"] = IdleCall]
    /\ UNCHANGED <<services, stopEvent, phase, bg, wake, now, rounds, reqs>>

\* urls a client may ask to wake
WakeUrls == {"http://a", "http://b", "http://d", "http://zz"}

\* a lookup that falls back to the first service
FindServiceOrFirst(svcs, u) ==
    LET hits == {i \in 1..Len(svcs) : GetUrl(svcs[i]) = Some(u)}
    IN  IF svcs = <<>> THEN None
        ELSE IF hits = {} THEN Some(svcs[1])
        ELSE Some(svcs[CHOOSE i \in hits : \A j \in hits : i <= j])

\* line 139: the first service whose url is u, or None
FindService(svcs, u) ==
    LET hits == {i \in 1..Len(svcs) : GetUrl(svcs[i]) = Some(u)}
    IN  IF hits = {} THEN None
        ELSE Some(svcs[CHOOSE i \in hits : \A j \in hits : i <= j])

\* lines 139-144: look the service up, 404 without it, else send the wake request
ApiWake(u) ==
    /\ Serving /\ HandlerIdle
    /\ reqs < MaxRequests
    /\ reqs' = reqs + 1
    /\ LET f == FindService(services, u)
       IN  IF f = None
           THEN /\ resp' = HttpError(404, <<"Service not found for given URL">>)
                /\ UNCHANGED wake
           ELSE /\ wake' = [pc |-> "request", svc |-> f[1]]
                /\ resp' = NoResp
    /\ UNCHANGED <<services, status, stopEvent, phase, bg, call, api, now, rounds>>

\* a wake whose request failure is passed over: the probe runs anyway
WakeRequestDoneLenient(out) ==
    /\ wake.pc = "request"
    /\ IF CheckOneRaises(wake.svc)
       THEN /\ wake' = [pc |-> "idle"]
            /\ resp' = HttpError(500, <<"Wake failed", RaiseText(wake.svc)>>)
       ELSE /\ wake' = [pc |-> "probe", svc |-> wake.svc,
                        wake_status |-> IF out.kind = "response" THEN out.code ELSE 0,
                        started |-> now]
            /\ resp' = NoResp
    /\ UNCHANGED <<services, status, stopEvent, phase, bg, call, api, now, rounds, reqs>>

\* lines 144-151 and 154-155: the wake request ends. Its exception, or one
\* of check_one's first lines, becomes the 500 "Wake failed"; else check_one
\* issues the probe
WakeRequestDone(out) ==
    /\ wake.pc = "request"
    /\ IF out.kind = "raise" \/ CheckOneRaises(wake.svc)
       THEN /\ wake' = [pc |-> "idle"]
            /\ resp' = HttpError(500, <<"Wake failed",
                                   IF out.kind = "raise" THEN out.text
                                   ELSE RaiseText(wake.svc)>>)
       ELSE /\ wake' = [pc |-> "probe", svc |-> wake.svc,
                        wake_status |-> out.code, started |-> now]
            /\ resp' = NoResp
    /\ UNCHANGED <<services, status, stopEvent, phase, bg, call, api, now, rounds, reqs>>

\* a probe whose exception reaches api_wake's except
WakeProbeDoneRaising(out) ==
    /\ wake.pc = "probe"
    /\ LET r == CheckOneResult(wake.svc, wake.started, out, now)
       IN  IF out.kind = "raise"
           THEN /\ resp' = HttpError(500, <<"Wake failed", out.text>>)
                /\ UNCHANGED status
           ELSE /\ status' = DictSet(status, r.url, r)
                /\ resp' = [kind |-> "wake", ok |-> TRUE, wake_status |-> wake.wake_status,
                            service_ok |-> r.ok, service_status |-> r.status_code]
    /\ wake' = [pc |-> "idle"]
    /\ UNCHANGED <<services, stopEvent, phase, bg, call, api, now, rounds, reqs>>

\* lines 151-153: check_one returns, the result is stored and reported
WakeProbeDone(out) ==
    /\ wake.pc = "probe"
    /\ LET r == CheckOneResult(wake.svc, wake.started, out, now)
       IN  /\ status' = DictSet(status, r.url, r)
           /\ resp' = [kind |-> "wake", ok |-> TRUE, wake_status |-> wake.wake_status,
                       service_ok |-> r.ok, service_status |-> r.status_code]
    /\ wake' = [pc |-> "idle"]
    /\ UNCHANGED <<services, stopEvent, phase, bg, call, api, now, rounds, reqs>>

----------------------------------------------------------------------------

Next ==
    \/ Tick
    \/ \E o \in LoadOutcomes : Startup(o)
    \/ StartupDone
    \/ \E c \in Slots, i \in 1..2, out \in SystemOutcomes : Complete(c, i, out)
    \/ LoopTop
    \/ LoopRoundDone
    \/ LoopTimeout
    \/ \E b \in {"cancelled", "top"} : Shutdown(b)
    \/ ShutdownDone
    \/ ApiStatus
    \/ ApiRefresh
    \/ ApiRefreshDone
    \/ \E o \in LoadOutcomes : ApiReload(o)
    \/ ApiReloadDone
    \/ \E u \in WakeUrls : ApiWake(u)
    \/ \E out \in SystemOutcomes : WakeRequestDone(out)
    \/ \E out \in SystemOutcomes : WakeProbeDone(out)

Spec == Init /\ [][Next]_vars

----------------------------------------------------------------------------
(* One pass of check_all_once, as on_startup runs it, over the larger *)
(* registries and with every outcome of a request.                    *)

\* the state on_startup is in once lines 104-106 have loaded a registry
PassInit ==
    /\ services \in PassConfigs
    /\ status = <<>>
    /\ stopEvent = FALSE
    /\ phase = "initial"
    /\ bg = "none"
    /\ call = [c \in Slots |-> IF c = "sched" THEN NewCall(services, 0) ELSE IdleCall]
    /\ api = "none"
    /\ wake = [pc |-> "idle"]
    /\ resp = NoResp
    /\ now = 0
    /\ rounds = 0
    /\ reqs = 0

PassNext ==
    \/ Tick
    \/ \E i \in 1..4, out \in Outcomes : Complete("sched", i, out)
    \/ StartupDone

SpecPass == PassInit /\ [][PassNext]_vars

----------------------------------------------------------------------------
(* The admission gate *)

\* C1: in every check_all_once invocation at most CONCURRENCY_LIMIT probes
\* are in flight at any instant, and the permits not held by a probe in
\* flight are all back in the semaphore: a probe that completed, with a
\* response or with a failure, has released its permit.
C1_InFlightBounded ==
    \A c \in Slots :
        call[c].st # "idle" =>
            /\ InFlight(c) <= CONCURRENCY_LIMIT
            /\ call[c].sem = CONCURRENCY_LIMIT - InFlight(c)

\* more services than permits, a probe that failed is done, and the gate is
\* full again
C1_Witness ==
    LET cl == call["sched"]
    IN  /\ Len(cl.tasks) > CONCURRENCY_LIMIT
        /\ InFlight("sched") = CONCURRENCY_LIMIT
        /\ \E i \in TasksOf(cl, "done") :
               DictGet(cl.results, cl.tasks[i].svc.url).error # None

\* the urls of the services a call was started over
CallUrls(c) ==
    {call[c].tasks[i].svc.url : i \in {j \in 1..Len(call[c].tasks) : "url" \in DOMAIN call[c].tasks[j].svc}}

\* C2: check_all_once ends by returning, only after every task it launched
\* has completed, with exactly one result for each url of the registry it
\* was started over (none for the empty registry).
C2_ProbeAllReturnsEveryUrl ==
    \A c \in Slots :
        Ended(c) =>
            /\ call[c].st = "run"
            /\ \A i \in 1..Len(call[c].tasks) : call[c].tasks[i].st = "done"
            /\ Len(call[c].tasks) = Cardinality({i \in 1..Len(call[c].tasks) : "url" \in DOMAIN call[c].tasks[i].svc})
            /\ DictKeys(call[c].results) = CallUrls(c)
            /\ Len(call[c].results) = Cardinality(CallUrls(c))

\* C3: the result of a probe states what the request did. A response gives
\* its code as status_code, ok = (code = expect_status) and no error; an
\* exception gives ok = false, no status_code and an error. So error is
\* present iff status_code is absent, ok implies status_code = expect_status,
\* and latency_ms >= 0.
C3_ResultStatesOutcome ==
    [][\A i \in 1..4, out \in Outcomes :
           Complete("sched", i, out) =>
               LET svc == call["sched"].tasks[i].svc
                   r == DictGet(call'["sched"].results, svc.url)
               IN  /\ out.kind = "response" =>
                          /\ r.status_code = Some(out.code)
                          /\ r.ok = (out.code = svc.expect_status)
                          /\ r.error = None
                   /\ out.kind = "raise" =>
                          /\ r.ok = FALSE
                          /\ r.status_code = None
                          /\ r.error # None
                   /\ (r.error # None) <=> (r.status_code = None)
                   /\ r.ok => r.status_code = Some(svc.expect_status)
                   /\ r.latency_ms >= 0]_vars

\* a pass that holds a failed probe and a successful probe of a service
\* that expects 503, one of them with a latency
C3_Witness ==
    LET rs == call["sched"].results
    IN  \E i, j \in 1..Len(rs) :
            /\ rs[i].val.error = Some("")
            /\ rs[j].val.ok /\ rs[j].val.status_code = Some(503)
            /\ rs[j].val.latency_ms > 0

\* C4: check_one never raises: no probe task ends with an exception, for
\* any service load_services can put in the registry.
C4_ProbeNeverRaises ==
    \A c \in Slots : TasksIn(c, "raised") = {}

----------------------------------------------------------------------------
(* The scheduler and its cancellation *)

\* C5: when on_shutdown is over, the round that was in flight when it was
\* called has run to its end and was applied: no round of the scheduler
\* was aborted with requests in flight.
C5_StopWaitsForRound ==
    phase = "stopped" =>
        ~(call["sched"].st = "cancelled" /\ TasksIn("sched", "inflight") # {})

\* C6: once _stop_event is set the scheduler starts no round.
C6_NoRoundAfterStop ==
    [][stopEvent => ~(bg # "round" /\ bg' = "round")]_vars

\* the loop test ran with the event set and ended the task
C6_Witness ==
    stopEvent /\ bg = "done"

----------------------------------------------------------------------------
(* The status snapshot *)

\* the entries of the sequence s, as a set
Range(s) == {s[i] : i \in 1..Len(s)}

\* C7: /api/status returns the store's entries that carry a url, each once,
\* never the "__error__" sentinel, and changes neither the store nor the
\* registry.
C7_SnapshotIsUrlEntries ==
    [][resp'.kind = "status" =>
           /\ Range(resp'.services) =
                  {status[i].val : i \in {j \in 1..Len(status) : status[j].key # "__error__"}}
           /\ Len(resp'.services) = Cardinality(DictKeys(status) \ {"__error__"})
           /\ \A i \in 1..Len(resp'.services) : "url" \in DOMAIN resp'.services[i]
           /\ status' = status
           /\ services' = services]_vars

\* a snapshot of a store that holds the sentinel and two results
C7_Witness ==
    /\ resp.kind = "status"
    /\ DictHas(status, "__error__")
    /\ Len(resp.services) = 2

\* C8: the snapshot is in ascending order of name, and entries of equal
\* name are in ascending order of url.
C8_SnapshotSortedByNameThenUrl ==
    resp.kind = "status" =>
        \A i, j \in 1..Len(resp.services) :
            i < j =>
                LET a == resp.services[i]
                    b == resp.services[j]
                IN  \/ StrPos(a.name) < StrPos(b.name)
                    \/ a.name = b.name /\ StrPos(a.url) <= StrPos(b.url)

----------------------------------------------------------------------------
(* /api/wake *)

\* u is the url of a service of the registry
Registered(u) == \E i \in 1..Len(services) : "url" \in DOMAIN services[i] /\ services[i].url = u

\* C9: /api/wake for a url of no service of the registry answers 404, sends
\* no wake request, runs no probe and leaves the store unchanged.
C9_WakeUnknownIs404 ==
    [][\A u \in WakeUrls :
           (ApiWake(u) /\ ~Registered(u)) =>
               /\ resp' = HttpError(404, <<"Service not found for given URL">>)
               /\ wake' = [pc |-> "idle"]
               /\ call' = call
               /\ status' = status]_vars

\* a 404 while the registry and the store hold entries
C9_Witness ==
    /\ resp = HttpError(404, <<"Service not found for given URL">>)
    /\ services # <<>>
    /\ status # <<>>

\* C10: when the wake request of a registered url returns a response, one
\* probe of the service follows; its result replaces the store's entry of
\* that url and no other entry changes, and the answer reports the ok and
\* status_code of the stored result.
C10_WakeProbesAndStores ==
    [][/\ \A out \in SystemOutcomes :
              (WakeRequestDone(out) /\ out.kind = "response") => wake'.pc = "probe"
       /\ \A out \in SystemOutcomes :
              WakeProbeDone(out) =>
                  LET u == wake.svc.url
                  IN  /\ DictHas(status', u)
                      /\ resp'.service_ok = DictGet(status', u).ok
                      /\ resp'.service_status = DictGet(status', u).status_code
                      /\ DictGet(status', u).checked_at = now
                      /\ \A k \in DictKeys(status) \ {u} :
                             DictHas(status', k) /\ DictGet(status', k) = DictGet(status, k)
                      /\ DictKeys(status') = DictKeys(status) \cup {u}]_vars

\* C11 as stated: a follow-up probe whose request fails by transport or
\* timeout makes /api/wake answer with the Wake failed error.
C11_ProbeFailureIsWakeFailed ==
    [][\A out \in SystemOutcomes :
           (WakeProbeDone(out) /\ out.kind = "raise") =>
               resp'.kind = "error" /\ resp'.code = 500]_vars

\* C11: a transport failure of the follow-up probe is captured in its result:
\* the result (not ok, no status code, the error text) is stored and the wake
\* answers normally with ok true, service_ok false and no service_status;
\* a failure of the wake request itself is answered 500 "Wake failed".
C11_ProbeFailureIsCaptured ==
    [][\A out \in SystemOutcomes :
           /\ (WakeProbeDone(out) /\ out.kind = "raise") =>
                  /\ resp'.kind = "wake"
                  /\ resp'.ok
                  /\ ~resp'.service_ok
                  /\ resp'.service_status = None
                  /\ DictHas(status', wake.svc.url)
                  /\ ~DictGet(status', wake.svc.url).ok
                  /\ DictGet(status', wake.svc.url).status_code = None
                  /\ DictGet(status', wake.svc.url).error = Some(out.text)
           /\ (WakeRequestDone(out) /\ out.kind = "raise") =>
                  resp'.kind = "error" /\ resp'.code = 500]_vars

\* a wake answered normally although its follow-up probe failed
C11_Witness ==
    /\ resp.kind = "wake"
    /\ resp.ok
    /\ ~resp.service_ok
    /\ resp.service_status = None

\* C12: when load_services raises in /api/reload the request is answered with
\* the server error, the registry keeps its value, no pass is started and the
\* store, sentinel included, is unchanged.
C12_ReloadLoadFailure ==
    [][\A o \in LoadOutcomes :
           (ApiReload(o) /\ o.kind = "raise") =>
               /\ resp' = HttpError(500, <<"Internal Server Error">>)
               /\ services' = services
               /\ call' = call
               /\ api' = "none"
               /\ status' = status]_vars

\* the server error of a reload over a registry whose passes cannot raise
C12_Witness ==
    /\ resp = HttpError(500, <<"Internal Server Error">>)
    /\ services = <<svcA, svcB>>
    /\ DictHas(status, "http://a")

\* the services a pass was started over
TaskSvcs(cl) == [i \in 1..Len(cl.tasks) |-> cl.tasks[i].svc]

\* C13: every pass runs over one complete registry, and a reload whose load
\* succeeded ends by answering the size of the new registry with the store
\* holding, for every url of the new registry, the result of its own pass.
C13_ReloadSwapsThenRefreshes ==
    [][/\ \A c \in Slots : call'[c].st = "run" => TaskSvcs(call'[c]) \in Configs
       /\ (api = "reload" /\ api' = "none") =>
              /\ resp'.kind = "reload"
              /\ resp'.ok
              /\ resp'.services = Len(services)
              /\ \A i \in 1..Len(services) :
                     /\ "url" \in DOMAIN services[i]
                     /\ DictHas(status', services[i].url)
                     /\ DictHas(call["api"].results, services[i].url)
                     /\ DictGet(status', services[i].url) =
                            DictGet(call["api"].results, services[i].url)]_vars

\* C14: once on_startup has returned over a non-empty registry, and before
\* any reload, the store holds an entry for every url of the registry and the
\* snapshot is not empty.
C14_StartupPopulatesStore ==
    (phase = "running" /\ reqs = 0 /\ services # <<>>) =>
        /\ \A i \in 1..Len(services) :
               "url" \in DOMAIN services[i] /\ DictHas(status, services[i].url)
        /\ Snapshot(status) # <<>>

\* C15 as stated: the checked_at of a url's entry never goes backwards.
C15_CheckedAtNeverGoesBack ==
    [][\A k \in DictKeys(status) \ {"__error__"} :
           DictHas(status', k) =>
               DictGet(status', k).checked_at >= DictGet(status, k).checked_at]_vars

\* the step that applies the results of the pass in slot c
Applies(c) ==
    /\ call[c].st = "run"
    /\ call'[c].st = "idle"
    /\ IF c = "sched" THEN TRUE ELSE api # "none" /\ api' = "none"

\* the store after the step holds every result of the pass in slot c
Written(c) ==
    /\ \A k \in DictKeys(call[c].results) :
           DictHas(status', k) /\ DictGet(status', k) = DictGet(call[c].results, k)
    /\ \A k \in DictKeys(status) \ DictKeys(call[c].results) :
           DictHas(status', k) /\ DictGet(status', k) = DictGet(status, k)

\* C15: the last write wins: a pass that ends writes each of its results
\* over the entry of its url, and a wake writes the result of its probe,
\* whatever the store held, so an entry can be replaced by an older result.
C15_LastWriteWins ==
    [][/\ \A c \in Slots : Applies(c) => Written(c)
       /\ \A out \in SystemOutcomes :
              WakeProbeDone(out) =>
                  DictGet(status', wake.svc.url) =
                      CheckOneResult(wake.svc, wake.started, out, now)]_vars

\* a wake has stored a result newer than the one a running round holds for
\* the same url
C15_Witness ==
    /\ resp.kind = "wake"
    /\ call["sched"].st = "run"
    /\ \E k \in DictKeys(call["sched"].results) :
           /\ DictHas(status, k)
           /\ DictGet(call["sched"].results, k).checked_at < DictGet(status, k).checked_at

\* C16: no result reaches the store while a round is collecting (a step that
\* ends a request leaves the store alone), the round's results are all
\* written in the one step that ends the round, and /api/status reads the
\* store in one step.
C16_RoundAppliedInOneStep ==
    [][/\ \A c \in Slots, i \in 1..2, out \in SystemOutcomes :
              Complete(c, i, out) => status' = status
       /\ (bg = "round" /\ bg' = "wait" /\ call["sched"].st = "run") => Written("sched")
       /\ resp'.kind = "status" =>
              resp'.services = Snapshot(status) /\ status' = status]_vars

\* a snapshot taken while a round holds one of its two results shows neither
C16_Witness ==
    /\ resp.kind = "status"
    /\ bg = "round"
    /\ Len(call["sched"].tasks) = 2
    /\ Len(call["sched"].results) = 1
    /\ call["sched"].results[1].val \notin Range(resp.services)

\* C17: a stop signalled during the interval wait takes the loop out of the
\* wait at once; after the signal the loop is never waiting or in a round,
\* and from its test it only ends. Without the signal the wait ends by the
\* timeout at the test, and the test starts the next round.
C17_WaitRacesStopAndInterval ==
    [][/\ (bg = "wait" /\ ~stopEvent /\ stopEvent') => bg' \in {"cancelled", "top"}
       /\ stopEvent' => bg' \notin {"wait", "round"}
       /\ (stopEvent /\ bg = "top" /\ bg' # bg) => bg' = "done" /\ rounds' = rounds
       /\ (~stopEvent' /\ bg = "wait" /\ bg' # bg) => bg' = "top"
       /\ (~stopEvent' /\ bg = "top" /\ bg' # bg) => bg' = "round" /\ rounds' = rounds + 1]_vars

\* stopped from the wait after the last round the model follows, whose
\* timeout it never takes: the loop left the wait by the signal and ended by
\* its test
C17_Witness ==
    /\ phase = "stopped"
    /\ bg = "done"
    /\ rounds = MaxRounds

\* C18: a round that raised is recorded in the sentinel entry only: every
\* url entry keeps its value, the loop goes to its wait, and the background
\* task ends only after the stop event is set.
C18_RoundFaultIsRecorded ==
    [][/\ (bg = "round" /\ bg' # bg /\ ~stopEvent' /\ call["sched"].st = "failed") =>
              /\ bg' = "wait"
              /\ DictKeys(status') = DictKeys(status) \cup {"__error__"}
              /\ DictGet(status', "__error__") = Sentinel("Background loop error", now)
              /\ \A k \in DictKeys(status) \ {"__error__"} :
                     DictGet(status', k) = DictGet(status, k)
       /\ bg' \in {"done", "cancelled"} => stopEvent']_vars

\* the second round runs after the first one raised
C18_Witness ==
    /\ bg = "round"
    /\ rounds = 2
    /\ DictHas(status, "__error__")
    /\ DictGet(status, "__error__").error = Some("Background loop error")

\* C19: no step removes a key of the store, and a pass that ends changes
\* only the entries of the urls it was started over, a round being started
\* over the registry of that moment.
C19_EntriesPersist ==
    [][/\ DictKeys(status) \subseteq DictKeys(status')
       /\ \A c \in Slots :
              Applies(c) =>
                  \A k \in DictKeys(status) \ CallUrls(c) :
                      DictGet(status', k) = DictGet(status, k)
       /\ (bg # "round" /\ bg' = "round") => TaskSvcs(call'["sched"]) = services]_vars

\* a round over the reloaded registry is about to end while the store holds
\* the entry of a url the reload removed
C19_Witness ==
    /\ bg = "round"
    /\ api = "none"
    /\ AllCollected("sched")
    /\ services = <<svcB>>
    /\ TaskSvcs(call["sched"]) = services
    /\ DictHas(status, "http://a")
    /\ DictHas(status, "http://b")

\* C20: a wake request that raises is answered 500 "Wake failed"; no probe
\* follows, and neither the lookup step nor the failing step writes the store.
C20_WakeRequestFailure ==
    [][/\ \A out \in SystemOutcomes :
              (WakeRequestDone(out) /\ out.kind = "raise") =>
                  /\ resp' = HttpError(500, <<"Wake failed", out.text>>)
                  /\ wake' = [pc |-> "idle"]
                  /\ call' = call
                  /\ status' = status
       /\ \A u \in WakeUrls : ApiWake(u) => status' = status]_vars

\* the failure of a wake request reported while the store holds entries
C20_Witness ==
    /\ resp = HttpError(500, <<"Wake failed", "ConnectError">>)
    /\ status # <<>>
====
